---- MODULE Spec2Model ----
(***************************************************************************)
(* Transaction aggregation pipeline of the Ethereum transaction tracker:   *)
(* TransactionProcessor.process_wallet_transactions and its three          *)
(* paginated fetch branches, the conversion of internal and token records, *)
(* the merge, the sort, the limit and the categorization.                  *)
(*                                                                         *)
(* Scaling: the source pages by 1000 records; the model keeps the same     *)
(* code with DefaultPageSize records per page.                             *)
(***************************************************************************)
EXTENDS Integers, Sequences, FiniteSets, TLC

\* ---------------------------------------------------------------- bounds
DefaultPageSize == 3     \* stands for the 1000 of `offset = min(1000, max_transactions)`
MaxLimit == 7            \* largest max_transactions tried
MinLimit == 0 - 1        \* smallest max_transactions tried

Branches == {"normal", "internal", "token"}
Feeds == {"old", "new", "mixed"}
None == "None"

\* the arguments of process_wallet_transactions other than max_transactions
address == "0xabc"
start_block == 0
end_block == 99999999

VARIABLES
    max_transactions,  \* argument of process_wallet_transactions
    feed,              \* per branch: the data the provider holds for the address
    pc,                \* per branch: "start", "awaiting" (a client call is pending), "done"
    page,              \* per branch: local `page`
    acc,               \* per branch: local accumulator (all_transactions / all_transfers)
    calls,             \* per branch: the client calls issued so far, in order
    resps,             \* per branch: the outcomes of the completed client calls, in order
    result,            \* per branch: what the branch coroutine handed to gather
    phase,             \* "fetching", "categorizing", "returned"
    collected,         \* normal_txs / internal_txs / token_transfers after the gather loop
    all_transactions,  \* merged, sorted and limited list handed to the categorizer
    returned,          \* the list process_wallet_transactions returns
    categorizer_calls  \* the lists categorize_transactions was invoked with, in order

\* one transaction under DataCategorizer._categorize_single_transaction
VARIABLES
    cat_input,         \* the transaction as it was before the first application
    cat_tx,            \* the transaction object, mutated by every application
    cat_first,         \* the transaction as the first application left it
    cat_runs           \* number of applications so far

pipeVars == <<max_transactions, feed, pc, page, acc, calls, resps, result, phase,
              collected, all_transactions, returned, categorizer_calls>>
catVars == <<cat_input, cat_tx, cat_first, cat_runs>>

\* one call of a fetch operation of EtherscanClient
VARIABLES
    cl_method,         \* which of the three operations is called
    cl_data,           \* data['result'] of the provider's answer: the raw rows
    cl_pc,             \* "off", "idle", "awaiting" (in _make_request), "done"
    cl_result          \* what the operation returned or raised

clientVars == <<cl_method, cl_data, cl_pc, cl_result>>

\* the RateLimiter shared by the callers of wait()
VARIABLES
    rl_clock,          \* the reading of time.time(), in ticks
    last_call,         \* RateLimiter.last_call
    rl_lock,           \* holder of RateLimiter._lock, or "free"
    rl_queue,          \* callers suspended in _lock.acquire(), first in first out
    rl_pc,             \* per caller: "off", "idle", "queued", "resumed", "sleeping"
    rl_wake,           \* per caller: when its asyncio.sleep is over
    rl_called,         \* per caller: when it called wait()
    rl_grants,         \* the calls of wait() that returned, in order
    rl_granted,        \* per caller: how many of its calls of wait() returned
    rl_traced          \* whether rl_called and rl_grants are kept

limiterVars == <<rl_clock, last_call, rl_lock, rl_queue, rl_pc, rl_wake, rl_called,
                 rl_grants, rl_granted, rl_traced>>

\* one call of EthereumTransactionTracker.batch_process_addresses
VARIABLES
    b_addresses,       \* the argument: a list of addresses
    b_i,               \* position of the loop in the list
    b_pc,              \* "off", "loop", "core", "pause", "returned"
    b_results,         \* the dict results, keyed by the address as given
    b_outcomes,        \* per processed position: "ok" or the exception raised
    b_log,             \* start and end of every process_address call, and pauses
    b_sessions,        \* addresses for which the client session was opened
    b_core,            \* addresses process_wallet_transactions was called with
    b_exports          \* addresses a CSV file was written for

batchVars == <<b_addresses, b_i, b_pc, b_results, b_outcomes, b_log, b_sessions,
               b_core, b_exports>>

\* one record under a converter of DataCategorizer
VARIABLES
    cv_source,         \* "internal" or "token": which converter is called
    cv_record,         \* the InternalTransaction or TokenTransfer given
    cv_result,         \* what the converter returned (NoTransaction for None)
    cv_pc              \* "off", "given", "converted"

convVars == <<cv_source, cv_record, cv_result, cv_pc>>


\* what the actions of the pipeline leave alone
besidePipe == <<catVars, clientVars, limiterVars, batchVars, convVars>>
\* what the actions on the single transaction leave alone
besideCat == <<pipeVars, clientVars, limiterVars, batchVars, convVars>>
\* what the actions of the client call leave alone
besideClient == <<pipeVars, catVars, limiterVars, batchVars, convVars>>
\* what the actions of the rate limiter leave alone
besideLimiter == <<pipeVars, catVars, clientVars, batchVars, convVars>>
\* what the actions of the batch leave alone
besideBatch == <<pipeVars, catVars, clientVars, limiterVars, convVars>>

\* what the actions of the converters leave alone
besideConv == <<pipeVars, catVars, clientVars, limiterVars, batchVars>>

vars == <<pipeVars, catVars, clientVars, limiterVars, batchVars, convVars>>

\* ------------------------------------------------------- python helpers
\* seq[:n] of Python, negative n included
Slice(s, n) ==
    IF n >= 0
    THEN SubSeq(s, 1, IF n < Len(s) THEN n ELSE Len(s))
    ELSE SubSeq(s, 1, IF Len(s) + n > 0 THEN Len(s) + n ELSE 0)

RECURSIVE Flatten(_)
Flatten(ss) == IF ss = <<>> THEN <<>> ELSE ss[1] \o Flatten(Tail(ss))

\* ----------------------------------------------------------- the models
\* Transaction._checksum_address: falsy values and "0x" pass through, a string is
\* lowercased; a value that is no string has no lower() and raises
NotAString == "<non-string>"
Lower(a) ==
    CASE a = "0xFROM" -> "0xfrom"
      [] a = "0xTO" -> "0xto"
      [] a = "0x7A250D5630B4CF539739DF2C5DACB4C659F2488D" -> "0x7a250d5630b4cf539739df2c5dacb4c659f2488d"
      [] OTHER -> a
checksum_raises(a) == a = NotAString
checksum_address(a) == IF a = None \/ a = "" \/ a = "0x" THEN a ELSE Lower(a)

\* Transaction(...) followed by __post_init__; NoTransaction when the constructor
\* raises (the converters turn that into None)
NoTransaction == [none |-> TRUE]
Transaction(f) ==
    IF checksum_raises(f.from_address) \/ checksum_raises(f.to_address)
    THEN NoTransaction
    ELSE [f EXCEPT !.from_address = checksum_address(f.from_address),
                   !.to_address = checksum_address(f.to_address)]

\* an input_data string, kept as its length and its first ten characters
\* (input_data[:10]); NoneInput is the Python None
NoneInput == [len |-> 0, head |-> None]
EmptyCall == [len |-> 2, head |-> "0x"]
\* calls of transfer(address,uint256), approve(address,uint256), and of a method
\* that is not in the signature table, each selector followed by its arguments
TransferCall == [len |-> 138, head |-> "0xa9059cbb"]
ApproveCall == [len |-> 138, head |-> "0x095ea7b3"]
UnknownCall == [len |-> 74, head |-> "0xdeadbeef"]
\* a missing TokenTransfer.timestamp (Python None)
NoTimestamp == 0 - 1

\* --------------------------------------------------- the provider's data
\* timestamp of the g-th record the provider holds for a branch
FeedTs(f, g) ==
    CASE f = "old" -> 1
      [] f = "new" -> 2
      [] OTHER -> IF g % 2 = 1 THEN 1 ELSE 2

\* the g-th record of a branch as the client hands it to the processor
\* The other fields of the g-th record go with the feed: the "old" feed holds
\* plain transfers, the "new" feed calls of transfer() to a known router and
\* NFT transfers, the "mixed" feed failed records and calls of other methods;
\* the second internal record of the "old" feed and the first token record of
\* the "old" feed carry an address that is no string (a JSON number).
NormalRow(g) ==
    LET f == feed["normal"]
    IN  Transaction(
            [hash |-> <<"normal", g>>, timestamp |-> FeedTs(f, g),
             from_address |-> "0xFROM",
             to_address |-> IF f = "new"
                            THEN "0x7A250D5630B4CF539739DF2C5DACB4C659F2488D"
                            ELSE "0xTO",
             gas_used |-> 21000, gas_price |-> 20, transaction_fee |-> 21000 * 20,
             status |-> IF f = "mixed" /\ g % 2 = 0 THEN "0" ELSE "1",
             transaction_type |-> "ETH_TRANSFER",
             nonce |-> g, transaction_index |-> g, token_id |-> None,
             input_data |-> CASE f = "old" -> EmptyCall
                              [] f = "new" -> TransferCall
                              [] OTHER -> IF g = 1 THEN UnknownCall
                                          ELSE IF g = 2 THEN TransferCall
                                          ELSE ApproveCall,
             method_id |-> None, raw_data |-> {}])

InternalRow(g) ==
    LET f == feed["internal"]
    IN  [hash |-> <<"internal", g>>, timestamp |-> FeedTs(f, g),
         from_address |-> IF f = "old" /\ g = 2 THEN NotAString ELSE "0xFROM",
         to_address |-> "0xTO", gas_used |-> 2300,
         is_error |-> (f = "mixed" /\ g % 2 = 0),
         error_code |-> IF f = "mixed" /\ g % 2 = 0 THEN "Reverted" ELSE None]

TokenRow(g) ==
    LET f == feed["token"]
    IN  [transaction_hash |-> <<"token", g>>, timestamp |-> FeedTs(f, g),
         from_address |-> "0xFROM",
         to_address |-> IF f = "old" /\ g = 1 THEN NotAString ELSE "0xTO",
         token_id |-> IF f = "new" THEN (IF g % 2 = 1 THEN "7" ELSE "") ELSE None]

Row(b, g) ==
    CASE b = "normal" -> NormalRow(g)
      [] b = "internal" -> InternalRow(g)
      [] OTHER -> TokenRow(g)

\* the first n records of page p when the page size is size
PageRows(b, p, size, n) == [i \in 1..n |-> Row(b, (p - 1) * size + i)]

\* ------------------------------------------------------------ categorizer
\* DataCategorizer._load_method_signatures
method_signatures ==
    {"0xa9059cbb", "0x23b872dd", "0x095ea7b3", "0x18160ddd", "0x70a08231"}

\* DataCategorizer._load_known_contracts
known_contracts ==
    {"0xa0b86a33e6ba8c7fb7436fea2b7b3d8a7a3d3e1e",
     "0x7a250d5630b4cf539739df2c5dacb4c659f2488d"}
contract_name(a) ==
    IF a = "0xa0b86a33e6ba8c7fb7436fea2b7b3d8a7a3d3e1e"
    THEN "Uniswap V2 Router" ELSE "Uniswap V2 Router 02"

\* raw_data[k] = v on a dict kept as a set of <<key, value>> pairs
Put(d, k, v) == {e \in d : e[1] # k} \cup {<<k, v>>}

\* rule (a): the method selector of the input data
ByMethod_OtherIsInteraction(tx) ==
    IF tx.input_data # NoneInput /\ tx.input_data.len > 2
          /\ tx.input_data.head \in method_signatures
    THEN LET m == tx.input_data.head
             t == [tx EXCEPT !.method_id = m]
         IN  IF m \in {"0xa9059cbb", "0x23b872dd"}
             THEN [t EXCEPT !.transaction_type = "ERC20_TRANSFER"]
             ELSE [t EXCEPT !.transaction_type = "CONTRACT_INTERACTION"]
    ELSE tx
ByMethod_Annotated(tx) ==
    IF tx.method_id # None
    THEN [tx EXCEPT !.transaction_type = "CONTRACT_INTERACTION"]
    ELSE IF tx.input_data # NoneInput /\ tx.input_data.len > 2
               /\ tx.input_data.head \in method_signatures
         THEN LET m == tx.input_data.head
                  t == [tx EXCEPT !.method_id = m]
              IN  IF m \in {"0xa9059cbb", "0x23b872dd"}
                  THEN [t EXCEPT !.transaction_type = "ERC20_TRANSFER"]
                  ELSE IF m = "0x095ea7b3"
                       THEN [t EXCEPT !.transaction_type = "CONTRACT_INTERACTION"]
                       ELSE t
         ELSE tx
ByMethod(tx) ==
    IF tx.input_data # NoneInput /\ tx.input_data.len > 2
          /\ tx.input_data.head \in method_signatures
    THEN LET m == tx.input_data.head
             t == [tx EXCEPT !.method_id = m]
         IN  IF m \in {"0xa9059cbb", "0x23b872dd"}
             THEN [t EXCEPT !.transaction_type = "ERC20_TRANSFER"]
             ELSE IF m = "0x095ea7b3"
                  THEN [t EXCEPT !.transaction_type = "CONTRACT_INTERACTION"]
                  ELSE t
    ELSE tx

\* rule (b): a failed status wins over the type
ByStatus_KeepsInternal(tx) ==
    IF tx.status = "0" /\ tx.transaction_type # "INTERNAL_TRANSFER"
    THEN [tx EXCEPT !.transaction_type = "FAILED_TRANSACTION"] ELSE tx
ByStatus(tx) ==
    IF tx.status = "0" THEN [tx EXCEPT !.transaction_type = "FAILED_TRANSACTION"] ELSE tx

\* rule (c): annotate calls to a known contract
ByContract(tx) ==
    IF tx.to_address \in known_contracts
    THEN [tx EXCEPT !.raw_data =
             Put(Put(@, "contract_name", contract_name(tx.to_address)),
                 "contract_type", "DEX")]
    ELSE tx

\* the three rules in the order of the code
categorize_single_transaction_StatusFirst(tx) == ByContract(ByMethod(ByStatus(tx)))
categorize_single_transaction(tx) == ByContract(ByStatus(ByMethod(tx)))

categorize_transactions(txs) ==
    [i \in 1..Len(txs) |-> categorize_single_transaction(txs[i])]

\* the reading of datetime.now() used for a token transfer without timestamp
Now == 3

convert_internal_to_transaction_Success(itx) ==
    Transaction([hash |-> itx.hash, timestamp |-> itx.timestamp,
                 from_address |-> itx.from_address, to_address |-> itx.to_address,
                 gas_used |-> itx.gas_used, gas_price |-> 0, transaction_fee |-> 0,
                 status |-> "1",
                 transaction_type |-> "INTERNAL_TRANSFER",
                 nonce |-> 0, transaction_index |-> 0, token_id |-> None,
                 input_data |-> NoneInput, method_id |-> None,
                 raw_data |-> {<<"internal", TRUE>>, <<"error_code", itx.error_code>>}])
convert_internal_to_transaction(itx) ==
    Transaction([hash |-> itx.hash, timestamp |-> itx.timestamp,
                 from_address |-> itx.from_address, to_address |-> itx.to_address,
                 gas_used |-> itx.gas_used, gas_price |-> 0, transaction_fee |-> 0,
                 status |-> IF itx.is_error THEN "0" ELSE "1",
                 transaction_type |-> "INTERNAL_TRANSFER",
                 nonce |-> 0, transaction_index |-> 0, token_id |-> None,
                 input_data |-> NoneInput, method_id |-> None,
                 raw_data |-> {<<"internal", TRUE>>, <<"error_code", itx.error_code>>}])

convert_token_transfer_to_transaction_AnyId(tt) ==
    Transaction([hash |-> tt.transaction_hash,
                 timestamp |-> IF tt.timestamp = NoTimestamp THEN Now ELSE tt.timestamp,
                 from_address |-> tt.from_address, to_address |-> tt.to_address,
                 gas_used |-> 0, gas_price |-> 0, transaction_fee |-> 0,
                 status |-> "1",
                 transaction_type |-> IF tt.token_id # None
                                      THEN "ERC721_TRANSFER" ELSE "ERC20_TRANSFER",
                 nonce |-> 0, transaction_index |-> 0, token_id |-> tt.token_id,
                 input_data |-> NoneInput, method_id |-> None,
                 raw_data |-> {<<"token_transfer", TRUE>>}])
convert_token_transfer_to_transaction(tt) ==
    Transaction([hash |-> tt.transaction_hash,
                 timestamp |-> IF tt.timestamp = NoTimestamp THEN Now ELSE tt.timestamp,
                 from_address |-> tt.from_address, to_address |-> tt.to_address,
                 gas_used |-> 0, gas_price |-> 0, transaction_fee |-> 0,
                 status |-> "1",
                 transaction_type |-> IF tt.token_id # None /\ tt.token_id # ""
                                      THEN "ERC721_TRANSFER" ELSE "ERC20_TRANSFER",
                 nonce |-> 0, transaction_index |-> 0, token_id |-> tt.token_id,
                 input_data |-> NoneInput, method_id |-> None,
                 raw_data |-> {<<"token_transfer", TRUE>>}])

\* `if transaction: all_transactions.append(transaction)`: the conversions that
\* did not fail, in order
IsTransaction(t) == t # NoTransaction
Kept(s) == SelectSeq(s, IsTransaction)

ConvertInternal_AllOrNothing(s) ==
    IF \E i \in 1..Len(s) : convert_internal_to_transaction(s[i]) = NoTransaction
    THEN <<>>
    ELSE [i \in 1..Len(s) |-> convert_internal_to_transaction(s[i])]
ConvertInternal(s) == Kept([i \in 1..Len(s) |-> convert_internal_to_transaction(s[i])])
ConvertToken(s) == Kept([i \in 1..Len(s) |-> convert_token_transfer_to_transaction(s[i])])

\* ------------------------------------------------- the three fetch branches
\* _fetch_normal_transactions, _fetch_internal_transactions and
\* _fetch_token_transfers are the same loop over three client methods.

\* offset = min(1000, max_transactions)
PageSize_Fixed(max) == DefaultPageSize
PageSize(max) == IF DefaultPageSize < max THEN DefaultPageSize ELSE max

\* the arguments of the client call for page p
Call(b, p) ==
    [method |-> b, address |-> address, start_block |-> start_block,
     end_block |-> end_block, page |-> p, offset |-> PageSize(max_transactions)]

\* while len(all_transactions) < max_transactions
LoopCondition_Always(a) == TRUE
LoopCondition(a) == Len(a) < max_transactions

\* return all_transactions[:max_transactions]
FetchReturn_NoCut(a) == a
FetchReturn(a) == Slice(a, max_transactions)

\* page += 1
NextPage_Same(p) == p
NextPage(p) == p + 1

\* except Exception: log, break
OnException_DropsPartial(a, p) == [stop |-> TRUE, acc |-> <<>>, page |-> p]
OnException_Retries(a, p) == [stop |-> FALSE, acc |-> a, page |-> p]
OnException(a, p) == [stop |-> TRUE, acc |-> a, page |-> p]

\* the outcomes of one client call: a page of 0..size records, or an exception
PageOutcome(b, p, size, n) == [kind |-> "page", rows |-> PageRows(b, p, size, n)]
RaiseOutcome == [kind |-> "raise", rows |-> <<>>]

\* the loop body from the point the awaited client call completes with out
LoopBody_EmptyGoesOn(b, out) ==
    IF out.kind = "raise"
    THEN OnException(acc[b], page[b])
    ELSE LET a == acc[b] \o out.rows
         IN  IF out.rows # <<>> /\ Len(out.rows) < PageSize(max_transactions)
             THEN [stop |-> TRUE, acc |-> a, page |-> page[b]]
             ELSE [stop |-> FALSE, acc |-> a, page |-> NextPage(page[b])]
LoopBody(b, out) ==
    IF out.kind = "raise"
    THEN OnException(acc[b], page[b])
    ELSE IF out.rows = <<>>
         THEN [stop |-> TRUE, acc |-> acc[b], page |-> page[b]]
         ELSE LET a == acc[b] \o out.rows
              IN  IF Len(out.rows) < PageSize(max_transactions)
                  THEN [stop |-> TRUE, acc |-> a, page |-> page[b]]
                  ELSE [stop |-> FALSE, acc |-> a, page |-> NextPage(page[b])]

\* what the task of a branch hands to gather: the returned list; every
\* Exception of the loop is caught inside the branch, so none reaches gather
Returned(v) == [exception |-> FALSE, value |-> v]

\* from the loop head: issue the next client call, or leave the loop and return
LoopHead(b, a, p) ==
    IF LoopCondition(a)
    THEN /\ calls' = [calls EXCEPT ![b] = Append(@, Call(b, p))]
         /\ pc' = [pc EXCEPT ![b] = "awaiting"]
         /\ result' = result
    ELSE /\ calls' = calls
         /\ pc' = [pc EXCEPT ![b] = "done"]
         /\ result' = [result EXCEPT ![b] = Returned(FetchReturn(a))]

\* the branch coroutine runs from its first line to its first client call
Start(b) ==
    /\ phase = "fetching"
    /\ pc[b] = "start"
    /\ acc' = [acc EXCEPT ![b] = <<>>]
    /\ page' = [page EXCEPT ![b] = 1]
    /\ LoopHead(b, <<>>, 1)
    /\ UNCHANGED <<max_transactions, feed, resps, phase, collected,
                   all_transactions, returned, categorizer_calls, besidePipe>>

\* the pending client call completes with out; the branch runs on to its next
\* client call or to its return
Resume(b, out) ==
    LET r == LoopBody(b, out)
    IN  /\ resps' = [resps EXCEPT ![b] = Append(@, out)]
        /\ acc' = [acc EXCEPT ![b] = r.acc]
        /\ page' = [page EXCEPT ![b] = r.page]
        /\ IF r.stop
           THEN /\ calls' = calls
                /\ pc' = [pc EXCEPT ![b] = "done"]
                /\ result' = [result EXCEPT ![b] = Returned(FetchReturn(r.acc))]
           ELSE LoopHead(b, r.acc, r.page)
        /\ UNCHANGED <<max_transactions, feed, phase, collected,
                       all_transactions, returned, categorizer_calls, besidePipe>>

\* the client returns a page of n records
ReturnPage(b) ==
    /\ pc[b] = "awaiting"
    /\ \E n \in 0..PageSize(max_transactions) :
          Resume(b, PageOutcome(b, page[b], PageSize(max_transactions), n))

\* the client call raises
RaiseError(b) ==
    /\ pc[b] = "awaiting"
    /\ Resume(b, RaiseOutcome)

\* ------------------------------------------------------- the orchestrator
\* asyncio.gather(*tasks, return_exceptions=True) resumes the caller when all
\* three tasks have finished
GatherReady_Any == \E b \in Branches : pc[b] = "done"
GatherReady == \A b \in Branches : pc[b] = "done"

\* the loop over the gathered results: a result that is an exception is skipped
\* and leaves the empty default
Collect(r) == IF r.exception THEN <<>> ELSE r.value

\* all_transactions before the sort: normal, then converted internal, then
\* converted token records
Merge(c) ==
    c["normal"] \o ConvertInternal(c["internal"]) \o ConvertToken(c["token"])

\* list.sort(key=lambda x: x.timestamp, reverse=True): stable, equal keys keep
\* their order. x is put behind the elements of the sorted list t that are not
\* older; t is bound as a value, which computes it once.
InsertDesc_Before(t, x) ==
    CHOOSE r \in
        {LET k == Cardinality({i \in 1..Len(u) : u[i].timestamp > x.timestamp})
         IN  SubSeq(u, 1, k) \o <<x>> \o SubSeq(u, k + 1, Len(u)) : u \in {t}} :
        TRUE
InsertDesc(t, x) ==
    CHOOSE r \in
        {LET k == Cardinality({i \in 1..Len(u) : u[i].timestamp >= x.timestamp})
         IN  SubSeq(u, 1, k) \o <<x>> \o SubSeq(u, k + 1, Len(u)) : u \in {t}} :
        TRUE

\* the first n elements of s, sorted
RECURSIVE SortedPrefix(_, _)
SortedPrefix(s, n) ==
    IF n = 0 THEN <<>> ELSE InsertDesc(SortedPrefix(s, n - 1), s[n])

SortedDesc(s) == SortedPrefix(s, Len(s))

SortByTimestampDesc_Skipped(s) == s
SortByTimestampDesc(s) == SortedDesc(s)

\* if len(all_transactions) > max_transactions: all_transactions[:max_transactions]
ApplyLimit_NoCut(s, max) == s
ApplyLimit(s, max) == IF Len(s) > max THEN Slice(s, max) ELSE s

\* gather resumes process_wallet_transactions, which collects, converts, merges,
\* sorts and limits, and then awaits the categorization in the executor
Gather ==
    /\ phase = "fetching"
    /\ GatherReady
    /\ \E c \in {[b \in Branches |-> Collect(result[b])]} :
          \E merged \in {Merge(c)} :
             \E sorted \in {SortByTimestampDesc(merged)} :
                /\ collected' = c
                /\ all_transactions' = ApplyLimit(sorted, max_transactions)
    /\ phase' = "categorizing"
    /\ UNCHANGED <<max_transactions, feed, pc, page, acc, calls, resps, result,
                   returned, categorizer_calls, besidePipe>>

\* return await self._categorize_transactions(all_transactions): the list the
\* categorizer is invoked with
CategorizerInput_Unlimited == SortByTimestampDesc(Merge(collected))
CategorizerInput == all_transactions

\* the executor runs categorize_transactions and the call returns its list
Categorize ==
    /\ phase = "categorizing"
    /\ categorizer_calls' = Append(categorizer_calls, CategorizerInput)
    /\ returned' = categorize_transactions(CategorizerInput)
    /\ phase' = "returned"
    /\ UNCHANGED <<max_transactions, feed, pc, page, acc, calls, resps, result,
                   collected, all_transactions, besidePipe>>

\* ------------------------------------------------------- the specification
\* no transaction is under categorization on its own
CatIdle ==
    /\ cat_input = NoTransaction
    /\ cat_tx = NoTransaction
    /\ cat_first = NoTransaction
    /\ cat_runs = 0

\* no converter is called
ConvIdle ==
    /\ cv_source = "internal"
    /\ cv_record = NoTransaction
    /\ cv_result = NoTransaction
    /\ cv_pc = "off"


\* batch_process_addresses is not called
BatchIdle ==
    /\ b_addresses = <<>>
    /\ b_i = 0
    /\ b_pc = "off"
    /\ b_results = <<>>
    /\ b_outcomes = <<>>
    /\ b_log = <<>>
    /\ b_sessions = <<>>
    /\ b_core = <<>>
    /\ b_exports = <<>>

\* nobody calls RateLimiter.wait
LimiterIdle ==
    /\ rl_clock = 0
    /\ last_call = 0
    /\ rl_lock = "free"
    /\ rl_queue = <<>>
    /\ rl_pc = [c \in Branches |-> "off"]
    /\ rl_wake = [c \in Branches |-> 0]
    /\ rl_called = [c \in Branches |-> 0]
    /\ rl_grants = <<>>
    /\ rl_granted = [c \in Branches |-> 0]
    /\ rl_traced = FALSE

\* no fetch operation of the client is called
ClientIdle ==
    /\ cl_method = "normal"
    /\ cl_data = <<>>
    /\ cl_pc = "off"
    /\ cl_result = [raised |-> FALSE, value |-> <<>>, error |-> "none"]

\* no call of process_wallet_transactions is under way
PipeIdle ==
    /\ max_transactions = 0
    /\ feed = [b \in Branches |-> "old"]
    /\ pc = [b \in Branches |-> "start"]
    /\ page = [b \in Branches |-> 1]
    /\ acc = [b \in Branches |-> <<>>]
    /\ calls = [b \in Branches |-> <<>>]
    /\ resps = [b \in Branches |-> <<>>]
    /\ result = [b \in Branches |-> Returned(<<>>)]
    /\ phase = "idle"
    /\ collected = [b \in Branches |-> <<>>]
    /\ all_transactions = <<>>
    /\ returned = <<>>
    /\ categorizer_calls = <<>>

Init ==
    /\ ConvIdle
    /\ BatchIdle
    /\ LimiterIdle
    /\ CatIdle
    /\ ClientIdle
    /\ max_transactions \in MinLimit..MaxLimit
    /\ feed \in [Branches -> Feeds]
    /\ pc = [b \in Branches |-> "start"]
    /\ page = [b \in Branches |-> 1]
    /\ acc = [b \in Branches |-> <<>>]
    /\ calls = [b \in Branches |-> <<>>]
    /\ resps = [b \in Branches |-> <<>>]
    /\ result = [b \in Branches |-> Returned(<<>>)]
    /\ phase = "fetching"
    /\ collected = [b \in Branches |-> <<>>]
    /\ all_transactions = <<>>
    /\ returned = <<>>
    /\ categorizer_calls = <<>>

Next ==
    \/ \E b \in Branches : Start(b)
    \/ \E b \in Branches : ReturnPage(b)
    \/ \E b \in Branches : RaiseError(b)
    \/ Gather
    \/ Categorize

Spec == Init /\ [][Next]_vars

\* -------------------------------------- the categorizer on one transaction
MaxRuns == 2

Statuses == {"1", "0", "pending", "unknown"}
TransactionTypes ==
    {"ETH_TRANSFER", "ERC20_TRANSFER", "ERC721_TRANSFER", "ERC1155_TRANSFER",
     "INTERNAL_TRANSFER", "CONTRACT_INTERACTION", "FAILED_TRANSACTION"}
TransferFromCall == [len |-> 202, head |-> "0x23b872dd"]
TotalSupplyCall == [len |-> 10, head |-> "0x18160ddd"]
BalanceOfCall == [len |-> 74, head |-> "0x70a08231"]
EmptyString == [len |-> 0, head |-> ""]
OddInput == [len |-> 4, head |-> "0xa9"]
InputDatas ==
    {NoneInput, EmptyString, EmptyCall, OddInput, UnknownCall, TransferCall,
     TransferFromCall, ApproveCall, TotalSupplyCall, BalanceOfCall}
ToAddresses ==
    {"", "0xTO", "0x7A250D5630B4CF539739DF2C5DACB4C659F2488D",
     "0xa0b86a33e6ba8c7fb7436fea2b7b3d8a7a3d3e1e"}

\* method_id and raw_data as a caller may have left them on the object
MethodIds == {None, "0x095ea7b3"}
RawDatas == {{}, {<<"contract_name", "stale">>, <<"note", "kept">>}}

\* a transaction as a parser, a converter or a caller may have built it
SomeTransaction(st, ty, inp, to, mid, raw) ==
    Transaction([hash |-> <<"normal", 1>>, timestamp |-> 1,
                 from_address |-> "0xFROM", to_address |-> to,
                 gas_used |-> 21000, gas_price |-> 20, transaction_fee |-> 21000 * 20,
                 status |-> st, transaction_type |-> ty,
                 nonce |-> 1, transaction_index |-> 1, token_id |-> None,
                 input_data |-> inp, method_id |-> mid, raw_data |-> raw])

InitCat ==
    /\ ConvIdle
    /\ BatchIdle
    /\ LimiterIdle
    /\ PipeIdle
    /\ ClientIdle
    /\ \E st \in Statuses, ty \in TransactionTypes, inp \in InputDatas,
          to \in ToAddresses, mid \in MethodIds, raw \in RawDatas :
          /\ cat_input = SomeTransaction(st, ty, inp, to, mid, raw)
          /\ cat_tx = SomeTransaction(st, ty, inp, to, mid, raw)
    /\ cat_first = NoTransaction
    /\ cat_runs = 0

\* one application of _categorize_single_transaction to the transaction object
CategorizeOne ==
    /\ cat_runs < MaxRuns
    /\ cat_tx' = categorize_single_transaction(cat_tx)
    /\ cat_first' = IF cat_runs = 0 THEN cat_tx' ELSE cat_first
    /\ cat_runs' = cat_runs + 1
    /\ UNCHANGED <<cat_input, besideCat>>

NextCat == CategorizeOne

SpecCat == InitCat /\ [][NextCat]_vars

\* ------------------------------------------------------------ properties
\* vocabulary of the properties, all read from the call and response histories
\* ------------------------------------------- the client's fetch operations
MaxRows == 3

\* what can be wrong with a raw row: a required key is absent, a number is not
\* numeric, a decimal amount is not a decimal, the receipt status is none of
\* the TransactionStatus values (only txlist rows carry a receipt status)
Defects(m) ==
    IF m = "normal"
    THEN {"none", "missing", "bad_int", "bad_decimal", "bad_status"}
    ELSE {"none", "missing", "bad_int", "bad_decimal"}

\* the i-th raw row of the page of endpoint m, with defect d; an absent key is
\* the empty tuple
RawRow(m, i, d) ==
    [hash |-> IF d = "missing" THEN <<>> ELSE <<m, i>>,
     blockNumber |-> IF d = "bad_int" THEN "0x11" ELSE "17",
     value |-> IF d = "bad_decimal" THEN "1,5" ELSE "5",
     txreceipt_status |-> IF d = "bad_status" THEN "2" ELSE "1"]

RawPages(m) ==
    UNION {[1..n -> Defects(m)] : n \in 0..MaxRows}
RawPage(m, ds) == [i \in 1..Len(ds) |-> RawRow(m, i, ds[i])]

\* strings int() and Decimal() accept
Numerals == {"17", "5"}

\* the exception the construction of the model object raises first ("none":
\* the object is built)
normal_raises(r) ==
    CASE r.hash = <<>> -> "KeyError"                          \* tx_data['hash']
      [] r.blockNumber \notin Numerals -> "ValueError"        \* int(...)
      [] r.value \notin Numerals -> "InvalidOperation"        \* Decimal(...)
      [] r.txreceipt_status \notin Statuses -> "ValueError"   \* TransactionStatus(...)
      [] OTHER -> "none"
internal_raises(r) ==
    CASE r.hash = <<>> -> "KeyError"
      [] r.value \notin Numerals -> "InvalidOperation"
      [] r.blockNumber \notin Numerals -> "ValueError"
      [] OTHER -> "none"
\* (the value is converted before, in a try block of its own)
token_raises(r) ==
    CASE r.hash = <<>> -> "KeyError"
      [] r.blockNumber \notin Numerals -> "ValueError"
      [] OTHER -> "none"

\* except (KeyError, ValueError, TypeError): return None
ParserCatches == {"KeyError", "ValueError", "TypeError"}

\* _parse_normal_transaction, _parse_internal_transaction, _parse_token_transfer
Parse(m, r) ==
    LET e == CASE m = "normal" -> normal_raises(r)
               [] m = "internal" -> internal_raises(r)
               [] OTHER -> token_raises(r)
    IN  IF m = "token" /\ r.value \notin Numerals
        \* except (ValueError, TypeError, InvalidOperation): return None
        THEN [kind |-> "None", hash |-> r.hash, error |-> "none"]
        ELSE IF e = "none" THEN [kind |-> "row", hash |-> r.hash, error |-> "none"]
        ELSE IF e \in ParserCatches THEN [kind |-> "None", hash |-> r.hash, error |-> "none"]
        ELSE [kind |-> "raise", hash |-> r.hash, error |-> e]

\* the except clause of the operation: get_normal_transactions and
\* get_internal_transactions return [], get_token_transfers re-raises
ExceptClause_Raises(m, e) == [raised |-> TRUE, value |-> <<>>, error |-> e]
ExceptClause_Swallows(m, e) == [raised |-> FALSE, value |-> <<>>, error |-> "none"]
ExceptClause(m, e) ==
    IF m = "token"
    THEN [raised |-> TRUE, value |-> <<>>, error |-> e]
    ELSE [raised |-> FALSE, value |-> <<>>, error |-> "none"]

RECURSIVE ParsedRows(_, _)
ParsedRows(m, rows) ==
    IF rows = <<>> THEN <<>>
    ELSE LET o == Parse(m, rows[1])
         IN  IF o.kind = "row" THEN <<o.hash>> \o ParsedRows(m, Tail(rows))
             ELSE ParsedRows(m, Tail(rows))

\* the body of the try block from the point _make_request returned data
ParseLoop(m, rows) ==
    LET bad == {i \in 1..Len(rows) : Parse(m, rows[i]).kind = "raise"}
    IN  IF bad = {}
        THEN [raised |-> FALSE, value |-> ParsedRows(m, rows), error |-> "none"]
        ELSE LET i == CHOOSE j \in bad : \A k \in bad : j <= k
             IN  ExceptClause(m, Parse(m, rows[i]).error)

\* what _make_request raises
RequestErrors == {"APIError", "RateLimitError"}

InitClient ==
    /\ ConvIdle
    /\ BatchIdle
    /\ LimiterIdle
    /\ PipeIdle
    /\ CatIdle
    /\ cl_method \in Branches
    /\ \E ds \in RawPages(cl_method) : cl_data = RawPage(cl_method, ds)
    /\ cl_pc = "idle"
    /\ cl_result = [raised |-> FALSE, value |-> <<>>, error |-> "none"]

\* the operation builds params and awaits _make_request
ClientCall ==
    /\ cl_pc = "idle"
    /\ cl_pc' = "awaiting"
    /\ UNCHANGED <<cl_method, cl_data, cl_result, besideClient>>

\* _make_request returns the provider's answer; the rows are parsed and the
\* operation returns or its except clause runs
ClientData ==
    /\ cl_pc = "awaiting"
    /\ cl_result' = ParseLoop(cl_method, cl_data)
    /\ cl_pc' = "done"
    /\ UNCHANGED <<cl_method, cl_data, besideClient>>

\* _make_request raises e
ClientError(e) ==
    /\ cl_pc = "awaiting"
    /\ cl_result' = ExceptClause(cl_method, e)
    /\ cl_pc' = "failed"
    /\ UNCHANGED <<cl_method, cl_data, besideClient>>

NextClient ==
    \/ ClientCall
    \/ ClientData
    \/ \E e \in RequestErrors : ClientError(e)

SpecClient == InitClient /\ [][NextClient]_vars

\* ------------------------------------------------------- the rate limiter
\* min_interval = 1.0 / calls_per_second, in ticks of the clock
min_interval == 2
\* ticks the clock may advance, and calls of wait() made, in one run
MaxTicks == 5
MaxWaits == 3
\* time.time() when the limiter is built: far more than min_interval after 0.0
Epoch == min_interval
Callers == Branches

\* asyncio.Lock.acquire returns at once when the lock is not held
LockFree_Always == TRUE
LockFree == rl_lock = "free"

\* asyncio.Lock.release: the first caller suspended in acquire() gets the lock
Release_Holds(pcs) == [lock |-> rl_lock, queue |-> rl_queue, pc |-> pcs]
Release(pcs) ==
    IF rl_queue = <<>>
    THEN [lock |-> "free", queue |-> <<>>, pc |-> pcs]
    ELSE [lock |-> Head(rl_queue), queue |-> Tail(rl_queue),
          pc |-> [pcs EXCEPT ![Head(rl_queue)] = "resumed"]]

\* self.last_call = time.time(), then the lock is released and wait() returns
UpdateAndReturn(c) ==
    LET r == Release([rl_pc EXCEPT ![c] = "idle"])
    IN  /\ last_call' = rl_clock
        /\ rl_grants' = IF rl_traced
                         THEN Append(rl_grants, [caller |-> c, called |-> rl_called'[c],
                                                 at |-> rl_clock])
                         ELSE rl_grants
        /\ rl_granted' = [rl_granted EXCEPT ![c] = @ + 1]
        /\ rl_pc' = r.pc
        /\ rl_lock' = r.lock
        /\ rl_queue' = r.queue
        /\ rl_wake' = rl_wake

\* the body of `async with self._lock` up to its first suspension
CheckAndUpdate(c) ==
    LET now == rl_clock
        time_since_last == now - last_call
    IN  IF time_since_last < min_interval
        THEN /\ rl_pc' = [rl_pc EXCEPT ![c] = "sleeping"]
             /\ rl_wake' = [rl_wake EXCEPT ![c] = now + (min_interval - time_since_last)]
             /\ rl_lock' = c
             /\ UNCHANGED <<last_call, rl_grants, rl_granted, rl_queue>>
        ELSE UpdateAndReturn(c)

\* the limiter as RateLimiter.__init__ leaves it
LimiterReady ==
    /\ rl_clock = Epoch
    /\ last_call = 0
    /\ rl_lock = "free"
    /\ rl_queue = <<>>
    /\ rl_pc = [c \in Callers |-> "idle"]
    /\ rl_wake = [c \in Callers |-> 0]
    /\ rl_called = [c \in Callers |-> 0]
    /\ rl_grants = <<>>
    /\ rl_granted = [c \in Callers |-> 0]

InitLimiter ==
    /\ ConvIdle
    /\ BatchIdle
    /\ PipeIdle
    /\ CatIdle
    /\ ClientIdle
    /\ LimiterReady
    /\ rl_traced = TRUE

InFlight == {c \in Callers : rl_pc[c] # "idle"}

\* caller c calls wait(): it takes the lock and runs on, or is suspended in
\* acquire()
EnterWait(c) ==
    /\ rl_pc[c] = "idle"
    /\ rl_called' = IF rl_traced THEN [rl_called EXCEPT ![c] = rl_clock] ELSE rl_called
    /\ IF LockFree
       THEN CheckAndUpdate(c)
       ELSE /\ rl_queue' = Append(rl_queue, c)
            /\ rl_pc' = [rl_pc EXCEPT ![c] = "queued"]
            /\ UNCHANGED <<last_call, rl_lock, rl_wake, rl_grants, rl_granted>>
    /\ UNCHANGED <<rl_clock, rl_traced, besideLimiter>>

\* a call of wait() by one of the callers, at any time
WaitCall(c) ==
    /\ Len(rl_grants) + Cardinality(InFlight) < MaxWaits
    /\ EnterWait(c)

\* a caller that was handed the lock runs on
LockResume(c) ==
    /\ rl_pc[c] = "resumed"
    /\ UNCHANGED <<rl_clock, rl_called, rl_traced, besideLimiter>>
    /\ CheckAndUpdate(c)

\* asyncio.sleep(wait_time) is over
SleepDone(c) ==
    /\ rl_pc[c] = "sleeping"
    /\ rl_clock >= rl_wake[c]
    /\ UNCHANGED <<rl_clock, rl_called, rl_traced, besideLimiter>>
    /\ UpdateAndReturn(c)

\* time passes
Advance ==
    /\ rl_clock' = rl_clock + 1
    /\ UNCHANGED <<last_call, rl_lock, rl_queue, rl_pc, rl_wake, rl_called, rl_grants,
                   rl_granted, rl_traced, besideLimiter>>

Tick ==
    /\ rl_clock < Epoch + MaxTicks
    /\ Advance

NextLimiter ==
    \/ \E c \in Callers : WaitCall(c)
    \/ \E c \in Callers : LockResume(c)
    \/ \E c \in Callers : SleepDone(c)
    \/ Tick

SpecLimiter == InitLimiter /\ [][NextLimiter]_vars

\* ------------------------------------------------ the batch of addresses
MaxAddresses == 3

\* an address string: its first two characters, the number of characters that
\* follow up to a trailing character, whether these are all hex digits and
\* whether they are all lower case, and the trailing character ("" for none)
Address(pre, n, hex, low, tail) ==
    [prefix |-> pre, digits |-> n, hex |-> hex, lower |-> low, tail |-> tail]
GoodLower == Address("0x", 40, TRUE, TRUE, "")
GoodMixed == Address("0x", 40, TRUE, FALSE, "")
TooShort == Address("0x", 39, TRUE, TRUE, "")
NotHex == Address("0x", 40, FALSE, TRUE, "")
NoPrefix == Address("ab", 38, TRUE, TRUE, "")
WithNewline == Address("0x", 40, TRUE, TRUE, "\n")
WithSpace == Address("0x", 40, TRUE, TRUE, " ")
EmptyAddress == Address("", 0, TRUE, TRUE, "")
Addresses ==
    {GoodLower, GoodMixed, TooShort, NotHex, NoPrefix, WithNewline, WithSpace,
     EmptyAddress}

\* re.match(r'^0x[a-fA-F0-9]{40}$', address): $ matches at the end of the
\* string and before a newline that ends the string
is_valid_ethereum_address(a) ==
    /\ a # EmptyAddress
    /\ a.prefix = "0x"
    /\ a.digits = 40
    /\ a.hex
    /\ a.tail \in {"", "\n"}

\* address.lower()
normalize_address(a) == [a EXCEPT !.lower = TRUE]

\* the loop goes on with the next address after an exception
NextAfterFailure_Abort(i) == Len(b_addresses) + 1
NextAfterFailure(i) == i + 1

\* results[address] = entry
SetResult(a, entry) ==
    [x \in DOMAIN b_results \cup {a} |-> IF x = a THEN entry ELSE b_results[x]]

ErrorEntry(e) == [error |-> e, address |-> EmptyAddress, transaction_count |-> 0,
                  csv_file |-> FALSE]
ResultEntry(a, n) == [error |-> "none", address |-> normalize_address(a),
                      transaction_count |-> n, csv_file |-> n > 0]

Event(ev, i) == [ev |-> ev, i |-> i]

\* except Exception as e: results[address] = {"error": str(e)}
Fail(e, log) ==
    /\ b_results' = SetResult(b_addresses[b_i], ErrorEntry(e))
    /\ b_outcomes' = Append(b_outcomes, e)
    /\ b_log' = Append(log, Event("end", b_i))
    /\ b_i' = NextAfterFailure(b_i)
    /\ b_pc' = "loop"

InitBatch ==
    /\ ConvIdle
    /\ PipeIdle
    /\ CatIdle
    /\ ClientIdle
    /\ LimiterIdle
    /\ b_addresses \in UNION {[1..n -> Addresses] : n \in 0..MaxAddresses}
    /\ b_i = 1
    /\ b_pc = "loop"
    /\ b_results = <<>>
    /\ b_outcomes = <<>>
    /\ b_log = <<>>
    /\ b_sessions = <<>>
    /\ b_core = <<>>
    /\ b_exports = <<>>

\* the loop takes the next address and calls process_address, which validates
\* it and either raises ValidationError or opens the client session and calls
\* the core
BeginAddress ==
    /\ b_pc = "loop"
    /\ b_i <= Len(b_addresses)
    /\ LET a == b_addresses[b_i]
           log == Append(b_log, Event("start", b_i))
       IN  IF ~is_valid_ethereum_address(a)
           THEN /\ Fail("ValidationError", log)
                /\ UNCHANGED <<b_sessions, b_core>>
           ELSE /\ b_sessions' = Append(b_sessions, a)
                /\ b_core' = Append(b_core, normalize_address(a))
                /\ b_log' = log
                /\ b_pc' = "core"
                /\ UNCHANGED <<b_i, b_results, b_outcomes>>
    /\ UNCHANGED <<b_addresses, b_exports, besideBatch>>

\* the core returns n transactions; the summary is built and, for n > 0, the
\* CSV file is written (written: whether the exporter succeeds); then the
\* result is stored and the pause begins
CoreReturns(n, written) ==
    /\ b_pc = "core"
    /\ LET a == b_addresses[b_i]
       IN  IF n > 0 /\ ~written
           THEN /\ Fail("OSError", b_log)
                /\ UNCHANGED b_exports
           ELSE /\ b_exports' = IF n > 0 THEN Append(b_exports, normalize_address(a))
                                ELSE b_exports
                /\ b_results' = SetResult(a, ResultEntry(a, n))
                /\ b_outcomes' = Append(b_outcomes, "ok")
                /\ b_log' = Append(b_log, Event("end", b_i))
                /\ b_pc' = "pause"
                /\ UNCHANGED b_i
    /\ UNCHANGED <<b_addresses, b_sessions, b_core, besideBatch>>

\* the client session or the core raises
CoreRaises ==
    /\ b_pc = "core"
    /\ Fail("ProcessingError", b_log)
    /\ UNCHANGED <<b_addresses, b_sessions, b_core, b_exports, besideBatch>>

\* await asyncio.sleep(1) is over
PauseDone ==
    /\ b_pc = "pause"
    /\ b_log' = Append(b_log, Event("pause", b_i))
    /\ b_i' = b_i + 1
    /\ b_pc' = "loop"
    /\ UNCHANGED <<b_addresses, b_results, b_outcomes, b_sessions, b_core, b_exports,
                   besideBatch>>

\* return results
BatchReturn ==
    /\ b_pc = "loop"
    /\ b_i > Len(b_addresses)
    /\ b_pc' = "returned"
    /\ UNCHANGED <<b_addresses, b_i, b_results, b_outcomes, b_log, b_sessions, b_core,
                   b_exports, besideBatch>>

NextBatch ==
    \/ BeginAddress
    \/ \E n \in 0..1, written \in BOOLEAN : CoreReturns(n, written)
    \/ CoreRaises
    \/ PauseDone
    \/ BatchReturn

SpecBatch == InitBatch /\ [][NextBatch]_vars

\* ------------------------------------------------ the converters on one record
\* addresses a parsed record may carry: a string, the empty string, or a JSON
\* value that is no string
RecordAddresses == {"0xFROM", "", NotAString}
ErrorCodes == {None, "Reverted", "Out of gas"}
TokenIds == {None, "", "7", "0"}
Timestamps == {1, 2}

InternalRecords ==
    [hash : {<<"internal", 1>>}, timestamp : Timestamps,
     from_address : RecordAddresses, to_address : RecordAddresses,
     gas_used : {0, 2300}, is_error : BOOLEAN, error_code : ErrorCodes]
TokenRecords ==
    [transaction_hash : {<<"token", 1>>}, timestamp : Timestamps \cup {NoTimestamp},
     from_address : RecordAddresses, to_address : RecordAddresses,
     token_id : TokenIds]

InitConv ==
    /\ PipeIdle
    /\ CatIdle
    /\ ClientIdle
    /\ LimiterIdle
    /\ BatchIdle
    /\ \/ cv_source = "internal" /\ cv_record \in InternalRecords
       \/ cv_source = "token" /\ cv_record \in TokenRecords
    /\ cv_result = NoTransaction
    /\ cv_pc = "given"

\* convert_internal_to_transaction(internal_tx)
ConvertInternalRecord ==
    /\ cv_pc = "given"
    /\ cv_source = "internal"
    /\ cv_result' = convert_internal_to_transaction(cv_record)
    /\ cv_pc' = "converted"
    /\ UNCHANGED <<cv_source, cv_record, besideConv>>

\* convert_token_transfer_to_transaction(token_transfer)
ConvertTokenRecord ==
    /\ cv_pc = "given"
    /\ cv_source = "token"
    /\ cv_result' = convert_token_transfer_to_transaction(cv_record)
    /\ cv_pc' = "converted"
    /\ UNCHANGED <<cv_source, cv_record, besideConv>>

NextConv ==
    \/ ConvertInternalRecord
    \/ ConvertTokenRecord

SpecConv == InitConv /\ [][NextConv]_vars

\* ----------------------------- the pipeline behind the client's rate limiter
\* BaseAPIClient._make_request: every client call of a branch first awaits
\* rate_limiter.wait() and then sends the HTTP GET
MaxGatedLimit == 4

\* calls of wait() that returned to branch b
Granted(b) == rl_granted[b]
\* the pending client call of b has not been through wait() yet
NeedsWait(b) == pc[b] = "awaiting" /\ Granted(b) < Len(calls[b])
\* the HTTP request of the pending client call of b is sent and not answered
Outstanding(b) ==
    pc[b] = "awaiting" /\ Granted(b) = Len(calls[b]) /\ rl_pc[b] = "idle"

InitGated ==
    /\ ConvIdle
    /\ BatchIdle
    /\ CatIdle
    /\ ClientIdle
    /\ LimiterReady
    /\ rl_traced = FALSE
    /\ max_transactions \in MinLimit..MaxGatedLimit
    /\ feed = [b \in Branches |-> "new"]
    /\ pc = [b \in Branches |-> "start"]
    /\ page = [b \in Branches |-> 1]
    /\ acc = [b \in Branches |-> <<>>]
    /\ calls = [b \in Branches |-> <<>>]
    /\ resps = [b \in Branches |-> <<>>]
    /\ result = [b \in Branches |-> Returned(<<>>)]
    /\ phase = "fetching"
    /\ collected = [b \in Branches |-> <<>>]
    /\ all_transactions = <<>>
    /\ returned = <<>>
    /\ categorizer_calls = <<>>

\* await self.rate_limiter.wait()
RequestWait(b) == NeedsWait(b) /\ EnterWait(b)

\* the HTTP request is answered with a page
RequestAnswered(b) == Outstanding(b) /\ ReturnPage(b)

\* the HTTP request fails
RequestFails(b) == Outstanding(b) /\ RaiseError(b)

\* time passes while a caller sleeps in wait()
TimePasses ==
    /\ \E c \in Callers : rl_pc[c] = "sleeping" /\ rl_clock < rl_wake[c]
    /\ Advance

NextGated ==
    \/ \E b \in Branches : Start(b)
    \/ \E b \in Branches : RequestWait(b)
    \/ \E b \in Branches : LockResume(b)
    \/ \E b \in Branches : SleepDone(b)
    \/ \E b \in Branches : RequestAnswered(b)
    \/ \E b \in Branches : RequestFails(b)
    \/ TimePasses
    \/ Gather
    \/ Categorize

SpecGated == InitGated /\ [][NextGated]_vars

\* the event loop runs every task that can run, time passes, and every request
\* is answered or fails
FairGated ==
    /\ SpecGated
    /\ WF_vars(NextGated)

\* ------------------------------- one fetch branch over the client's parsing
\* A branch coroutine run on its own, each of its client calls answered by raw
\* rows that the client operation parses, or failing in _make_request.

\* the raw pages the provider may send when offset rows are asked for
RawAnswers(m, offset) == UNION {[1..n -> Defects(m)] : n \in 0..offset}

\* the raw rows of page p: row i of the page is the ((p - 1) * offset + i)-th
\* the provider holds
RawData(m, p, offset, ds) ==
    [i \in 1..Len(ds) |-> RawRow(m, (p - 1) * offset + i, ds[i])]

\* what the client operation hands to the branch, with the raw answer it was
\* computed from (failed: _make_request raised)
ClientOutcome(r, ds, failed) ==
    [kind |-> IF r.raised THEN "raise" ELSE "page", rows |-> r.value,
     raw |-> ds, failed |-> failed]

\* the branch under observation
Observed(b) == cl_method = b

InitRaw ==
    /\ ConvIdle
    /\ BatchIdle
    /\ CatIdle
    /\ LimiterIdle
    /\ cl_method \in Branches
    /\ cl_data = <<>>
    /\ cl_pc = "idle"
    /\ cl_result = [raised |-> FALSE, value |-> <<>>, error |-> "none"]
    /\ max_transactions \in MinLimit..MaxLimit
    /\ feed = [b \in Branches |-> "new"]
    /\ pc = [b \in Branches |-> "start"]
    /\ page = [b \in Branches |-> 1]
    /\ acc = [b \in Branches |-> <<>>]
    /\ calls = [b \in Branches |-> <<>>]
    /\ resps = [b \in Branches |-> <<>>]
    /\ result = [b \in Branches |-> Returned(<<>>)]
    /\ phase = "fetching"
    /\ collected = [b \in Branches |-> <<>>]
    /\ all_transactions = <<>>
    /\ returned = <<>>
    /\ categorizer_calls = <<>>

\* the coroutine is started
RawStart(b) == Observed(b) /\ Start(b)

\* _make_request returns the raw rows ds; the operation parses them and returns
\* or runs its except clause, and the branch runs on
RawAnswered(b) ==
    /\ Observed(b)
    /\ pc[b] = "awaiting"
    /\ \E ds \in RawAnswers(b, PageSize(max_transactions)) :
          Resume(b, ClientOutcome(
                        ParseLoop(b, RawData(b, page[b],
                                             PageSize(max_transactions), ds)),
                        ds, FALSE))

\* _make_request raises e; the except clause of the operation runs, and the
\* branch runs on
RawFails(b) ==
    /\ Observed(b)
    /\ pc[b] = "awaiting"
    /\ \E e \in RequestErrors :
          Resume(b, ClientOutcome(ExceptClause(b, e), <<>>, TRUE))

NextRaw ==
    \/ \E b \in Branches : RawStart(b)
    \/ \E b \in Branches : RawAnswered(b)
    \/ \E b \in Branches : RawFails(b)

SpecRaw == InitRaw /\ [][NextRaw]_vars

\* ---------------------------------------------------- property vocabulary
Done(b) == pc[b] = "done"
RequestedSize ==
    IF max_transactions < DefaultPageSize THEN max_transactions ELSE DefaultPageSize
IsFull(out) == out.kind = "page" /\ Len(out.rows) = RequestedSize
IsShort(out) == out.kind = "page" /\ Len(out.rows) < RequestedSize
IsRaise(out) == out.kind = "raise"
RowsOf(rs) == Flatten([i \in 1..Len(rs) |-> rs[i].rows])
Raised(b) == \E i \in 1..Len(resps[b]) : IsRaise(resps[b][i])
RowHash(b, r) == IF b = "token" THEN r.transaction_hash ELSE r.hash
Converts(b, r) ==
    CASE b = "normal" -> TRUE
      [] b = "internal" -> convert_internal_to_transaction(r) # NoTransaction
      [] OTHER -> convert_token_transfer_to_transaction(r) # NoTransaction
\* hashes of the convertible records among the first max_transactions records
\* a branch received from its client (a branch returns no more than that)
Fetched(b) ==
    LET rows == Slice(RowsOf(resps[b]), max_transactions)
    IN  {RowHash(b, rows[i]) : i \in {j \in 1..Len(rows) : Converts(b, rows[j])}}
ReturnedHashes == {returned[i].hash : i \in 1..Len(returned)}
FromBranch(b) == {h \in ReturnedHashes : h[1] = b}

\* C1: for max_transactions > 0 the returned list never has more than
\* max_transactions elements, whatever the three sources returned or raised
LimitHolds ==
    (phase = "returned" /\ max_transactions > 0) => Len(returned) <= max_transactions

LimitWitness ==
    /\ phase = "returned"
    /\ max_transactions > 0
    /\ Len(Merge(collected)) > max_transactions
    /\ Len(returned) = max_transactions

\* C2: the returned list is ordered by timestamp, newest first
SortedHolds ==
    phase = "returned" =>
        \A i \in 1..(Len(returned) - 1) :
            returned[i].timestamp >= returned[i + 1].timestamp

\* a newer token transfer was returned ahead of an older normal transaction,
\* although the merge puts normal transactions first
SortedWitness ==
    /\ phase = "returned"
    /\ \E i, j \in 1..Len(returned) :
          /\ i < j
          /\ returned[i].hash[1] = "token"
          /\ returned[j].hash[1] = "normal"
          /\ returned[i].timestamp > returned[j].timestamp

\* C3 as stated: after a failure of the internal source the internal branch
\* contributes no record to the returned list
FailedBranchGivesNothing ==
    (phase = "returned" /\ Raised("internal")) => FromBranch("internal") = {}

\* C3, amended: after a failure of the internal source the call still returns;
\* the returned list is drawn from the records the three branches received, the
\* internal branch contributing the pages it received before the failure; no
\* convertible record is lost unless the limit cuts a branch or the merged list
PartialFailureKept ==
    (phase = "returned" /\ Raised("internal")) =>
        LET all == Fetched("normal") \cup Fetched("internal") \cup Fetched("token")
        IN  /\ collected["internal"] = RowsOf(resps["internal"])
            /\ ReturnedHashes \subseteq all
            /\ Cardinality(ReturnedHashes) = Len(returned)
            /\ Len(returned) = IF Cardinality(all) < max_transactions
                               THEN Cardinality(all) ELSE max_transactions
            /\ Cardinality(all) <= max_transactions => ReturnedHashes = all

\* the internal source failed on its second page; the first page and the records
\* of the other two branches are all in the returned list
PartialFailureWitness ==
    /\ phase = "returned"
    /\ Len(resps["internal"]) = 2
    /\ IsRaise(resps["internal"][2])
    /\ FromBranch("internal") = Fetched("internal")
    /\ FromBranch("internal") # {}
    /\ FromBranch("normal") # {}
    /\ FromBranch("token") # {}

\* C4 as stated: once a token-transfer client call has raised, the call never
\* returns a list
TokenFailurePropagates == Raised("token") => phase # "returned"

\* C4, amended: a failure of the token-transfer client call is caught inside the
\* token branch like in the other two branches; the branch hands gather the
\* transfers of the pages before the failure and the call returns normally
TokenFailureCaught ==
    Raised("token") =>
        /\ Done("token")
        /\ ~result["token"].exception
        /\ result["token"].value = RowsOf(resps["token"])
        /\ phase # "fetching" => collected["token"] = RowsOf(resps["token"])
        /\ phase = "returned" =>
              /\ FromBranch("token") \subseteq Fetched("token")
              /\ Len(returned) < max_transactions =>
                    FromBranch("token") = Fetched("token")

TokenFailureWitness ==
    /\ phase = "returned"
    /\ Len(resps["token"]) = 2
    /\ IsRaise(resps["token"][2])
    /\ FromBranch("token") # {}

\* a finished branch stopped for a reason of its own: it never entered the loop,
\* or its last call raised or returned a short page, or it reached the limit
StoppedByItself(b) ==
    /\ Len(calls[b]) = Len(resps[b])
    /\ \/ resps[b] = <<>> /\ max_transactions <= 0
       \/ /\ resps[b] # <<>>
          /\ \/ IsRaise(resps[b][Len(resps[b])])
             \/ IsShort(resps[b][Len(resps[b])])
             \/ Len(RowsOf(resps[b])) >= max_transactions

\* C5: conversion, merge and sort start only when all three branches have
\* finished; every branch runs its own pagination to its own end, and what is
\* merged from a branch is what its own pages gave, whatever the others did
FanInHolds ==
    /\ phase # "fetching" =>
          /\ \A b \in Branches : Done(b)
          /\ \A b \in Branches :
                collected[b] = Slice(RowsOf(resps[b]), max_transactions)
    /\ \A b \in Branches : Done(b) => StoppedByItself(b)

\* the internal branch has failed and finished while the normal branch is
\* waiting for its second page and the token branch for a page of its own
FanInWitness ==
    /\ Done("internal")
    /\ Raised("internal")
    /\ pc["normal"] = "awaiting"
    /\ page["normal"] = 2
    /\ pc["token"] = "awaiting"

\* the case of C6 for branch b: page k is the first short page, the pages
\* before it were full and fewer than max_transactions records had been
\* accumulated when page k was requested
ShortPageCase(b) ==
    /\ Done(b)
    /\ resps[b] # <<>>
    /\ IsShort(resps[b][Len(resps[b])])
    /\ \A i \in 1..(Len(resps[b]) - 1) : IsFull(resps[b][i])
    /\ (Len(resps[b]) - 1) * RequestedSize < max_transactions

\* C6 as stated: in that case the branch issues exactly k calls and returns the
\* concatenation of pages 1..k
ShortPageReturnsAll ==
    \A b \in Branches :
        ShortPageCase(b) =>
            /\ Len(calls[b]) = Len(resps[b])
            /\ result[b].value = RowsOf(resps[b])

\* C6, amended: in that case the branch issues exactly k calls, no call follows
\* a short page, and the branch returns the first max_transactions records of
\* the concatenation of pages 1..k (all of it when it is not longer than that)
ShortPageStops ==
    \A b \in Branches :
        /\ \A i \in 1..(Len(calls[b]) - 1) : IsFull(resps[b][i])
        /\ ShortPageCase(b) =>
              /\ Len(calls[b]) = Len(resps[b])
              /\ result[b].value = Slice(RowsOf(resps[b]), max_transactions)
              /\ Len(RowsOf(resps[b])) <= max_transactions =>
                    result[b].value = RowsOf(resps[b])

\* three calls, the third page short, as in the example of the claim
ShortPageWitness ==
    \E b \in Branches :
        /\ ShortPageCase(b)
        /\ Len(calls[b]) = 3
        /\ Len(result[b].value) = 2 * DefaultPageSize + 1

\* C7: a branch never returns more than max_transactions records and requests no
\* page once it has accumulated max_transactions records; when every page is
\* full it returns exactly max_transactions records
CapHolds ==
    \A b \in Branches :
        /\ \A i \in 1..Len(calls[b]) :
              Len(RowsOf(SubSeq(resps[b], 1, i - 1))) < max_transactions
        /\ (Done(b) /\ max_transactions >= 0) =>
              Len(result[b].value) <= max_transactions
        /\ (Done(b) /\ resps[b] # <<>>
                /\ \A i \in 1..Len(resps[b]) : IsFull(resps[b][i])) =>
              /\ Len(result[b].value) = max_transactions
              /\ (Len(calls[b]) - 1) * RequestedSize < max_transactions
              /\ Len(calls[b]) * RequestedSize >= max_transactions

\* full pages only, the limit no multiple of the page size: two calls, and the
\* second page is cut
CapWitness ==
    \E b \in Branches :
        /\ Done(b)
        /\ Len(calls[b]) = 2
        /\ \A i \in 1..2 : IsFull(resps[b][i])
        /\ Len(RowsOf(resps[b])) > max_transactions
        /\ Len(result[b].value) = max_transactions

\* C8: every call asks for min(default page size, max_transactions) records; a
\* limit below the default page size makes a branch issue exactly one call, for
\* page 1 with page size max_transactions, whatever that call brings
PageSizeHolds ==
    \A b \in Branches :
        /\ \A i \in 1..Len(calls[b]) :
              calls[b][i].offset =
                  IF DefaultPageSize < max_transactions
                  THEN DefaultPageSize ELSE max_transactions
        /\ (0 < max_transactions /\ max_transactions < DefaultPageSize) =>
              /\ Len(calls[b]) <= 1
              /\ pc[b] # "start" =>
                    /\ Len(calls[b]) = 1
                    /\ calls[b][1].page = 1
                    /\ calls[b][1].offset = max_transactions

\* below the default page size: one branch got a full page, one a failure, one
\* an empty page, and all three are finished after one call
PageSizeWitness ==
    /\ 0 < max_transactions
    /\ max_transactions < DefaultPageSize
    /\ \A b \in Branches : Done(b) /\ Len(calls[b]) = 1
    /\ Len(resps["normal"][1].rows) = max_transactions
    /\ IsRaise(resps["internal"][1])
    /\ resps["token"][1] = [kind |-> "page", rows |-> <<>>]

\* C9: a branch requests pages 1, 2, 3, ... in order, never has more than one
\* call pending, and all its calls carry the same address, block range and
\* page size
SequentialHolds ==
    \A b \in Branches :
        /\ Len(resps[b]) <= Len(calls[b])
        /\ Len(calls[b]) <= Len(resps[b]) + 1
        /\ pc[b] = "awaiting" <=> Len(calls[b]) = Len(resps[b]) + 1
        /\ \A i \in 1..Len(calls[b]) :
              /\ calls[b][i].page = i
              /\ calls[b][i].method = b
              /\ calls[b][i].address = address
              /\ calls[b][i].start_block = start_block
              /\ calls[b][i].end_block = end_block
              /\ calls[b][i].offset = calls[b][1].offset

SequentialWitness ==
    \E b \in Branches :
        /\ Len(calls[b]) = 3
        /\ Len(resps[b]) = 2
        /\ pc[b] = "awaiting"

\* C10: a call that raises is the last call of its branch; the branch is
\* finished and has returned, as a list, the records of the pages before it
RaiseStopsHolds ==
    \A b \in Branches :
        \A i \in 1..Len(resps[b]) :
            IsRaise(resps[b][i]) =>
                /\ i = Len(resps[b])
                /\ Len(calls[b]) = i
                /\ Done(b)
                /\ ~result[b].exception
                /\ result[b].value = RowsOf(SubSeq(resps[b], 1, i - 1))

\* the third page failed: the two pages before it are returned
RaiseStopsWitness ==
    \E b \in Branches :
        /\ Len(resps[b]) = 3
        /\ IsRaise(resps[b][3])
        /\ Len(result[b].value) = 2 * DefaultPageSize

\* C11: categorize_transactions is invoked exactly once per call, after the
\* merge, the sort and the limit, with the limited list; the returned list is
\* that list categorized element by element, so every returned transaction was
\* categorized and no transaction cut by the limit was
CategorizeLastHolds ==
    /\ phase # "returned" => categorizer_calls = <<>>
    /\ phase = "returned" =>
          /\ Len(categorizer_calls) = 1
          /\ LET given == categorizer_calls[1]
                 merged == Merge(collected)
                 hashes(l) == {l[i].hash : i \in 1..Len(l)}
             IN  /\ Len(given) = IF max_transactions >= 0 /\ Len(merged) > max_transactions
                                 THEN max_transactions ELSE Len(merged)
                 /\ \A i \in 1..(Len(given) - 1) :
                       given[i].timestamp >= given[i + 1].timestamp
                 /\ hashes(given) \subseteq hashes(merged)
                 /\ Len(returned) = Len(given)
                 /\ \A i \in 1..Len(given) :
                       returned[i] = categorize_single_transaction(given[i])
                 /\ hashes(given) = ReturnedHashes

\* a branch failed, the limit cut the merged list, and the categorizer changed
\* the type of a returned transaction
CategorizeLastWitness ==
    /\ phase = "returned"
    /\ \E b \in Branches : Raised(b)
    /\ max_transactions > 0
    /\ Len(Merge(collected)) > max_transactions
    /\ \E i \in 1..Len(returned) :
          /\ returned[i].transaction_type = "FAILED_TRANSACTION"
          /\ categorizer_calls[1][i].transaction_type # "FAILED_TRANSACTION"

\* C12: a failed transaction whose input data starts with the selector of
\* transfer or transferFrom ends as FAILED_TRANSACTION with method_id set to
\* that selector
FailedTransferHolds ==
    (/\ cat_runs >= 1
     /\ cat_input.status = "0"
     /\ cat_input.input_data.len > 2
     /\ cat_input.input_data.head \in {"0xa9059cbb", "0x23b872dd"}) =>
        /\ cat_tx.transaction_type = "FAILED_TRANSACTION"
        /\ cat_tx.method_id = cat_input.input_data.head

\* a failed transferFrom that came in as an ETH transfer
FailedTransferWitness ==
    /\ cat_runs = 1
    /\ cat_input.status = "0"
    /\ cat_input.input_data = TransferFromCall
    /\ cat_input.transaction_type = "ETH_TRANSFER"
    /\ cat_tx.transaction_type = "FAILED_TRANSACTION"
    /\ cat_tx.method_id = "0x23b872dd"

\* C13: a second application of _categorize_single_transaction changes nothing:
\* type, method_id, annotations and every other field stay as the first
\* application left them
IdempotentHolds ==
    cat_runs >= 2 =>
        /\ cat_tx.transaction_type = cat_first.transaction_type
        /\ cat_tx.method_id = cat_first.method_id
        /\ cat_tx.raw_data = cat_first.raw_data
        /\ cat_tx = cat_first

\* applied twice to an approve call to a known router: the first application
\* set the type, the method_id and the annotations
IdempotentWitness ==
    /\ cat_runs = 2
    /\ cat_input.input_data = ApproveCall
    /\ cat_input.transaction_type = "ETH_TRANSFER"
    /\ cat_input.method_id = None
    /\ <<"contract_name", "stale">> \in cat_input.raw_data
    /\ <<"contract_name", "Uniswap V2 Router 02">> \in cat_first.raw_data
    /\ <<"note", "kept">> \in cat_first.raw_data
    /\ cat_first.transaction_type = "CONTRACT_INTERACTION"
    /\ cat_first.method_id = "0x095ea7b3"
    /\ <<"contract_type", "DEX">> \in cat_first.raw_data
    /\ cat_tx = cat_first

\* C14: an internal or token record whose conversion returns None is dropped
\* from the merged list and nothing is raised; every other record of the three
\* branches is in the merged list, so that the list handed on holds exactly the
\* convertible records collected (cut to max_transactions by the limit)
HandedOn(b) == {RowHash(b, collected[b][i]) : i \in 1..Len(collected[b])}
Convertible(b) ==
    {RowHash(b, collected[b][i]) :
        i \in {j \in 1..Len(collected[b]) : Converts(b, collected[b][j])}}
AllConvertible == Convertible("normal") \cup Convertible("internal") \cup Convertible("token")
AllTransactionsHashes == {all_transactions[i].hash : i \in 1..Len(all_transactions)}

ConversionFailureLocalHolds ==
    phase \in {"categorizing", "returned"} =>
        /\ \A i \in 1..Len(all_transactions) : all_transactions[i] # NoTransaction
        /\ AllTransactionsHashes \subseteq AllConvertible
        /\ max_transactions >= 0 =>
              Len(all_transactions) =
                  IF Cardinality(AllConvertible) < max_transactions
                  THEN Cardinality(AllConvertible) ELSE max_transactions
        /\ Cardinality(AllConvertible) <= max_transactions =>
              AllTransactionsHashes = AllConvertible

\* the second internal record and the first token record fail to convert; the
\* records before and after them and the normal records are returned
ConversionFailureLocalWitness ==
    /\ phase = "returned"
    /\ <<"internal", 2>> \in HandedOn("internal") \ Convertible("internal")
    /\ <<"token", 1>> \in HandedOn("token") \ Convertible("token")
    /\ {<<"internal", 1>>, <<"internal", 3>>, <<"token", 2>>, <<"normal", 1>>}
          \subseteq ReturnedHashes
    /\ <<"internal", 2>> \notin ReturnedHashes
    /\ <<"token", 1>> \notin ReturnedHashes
    /\ ReturnedHashes = AllConvertible

\* C15: a malformed row (absent key, non-numeric number, invalid decimal,
\* unknown status) is dropped alone: the operation returns the well-formed rows
\* of the page in order and raises nothing
WellFormed(rows) == SelectSeq(rows, LAMBDA r :
    /\ r.hash # <<>>
    /\ r.blockNumber \in Numerals
    /\ r.value \in Numerals
    /\ r.txreceipt_status \in Statuses)
HashesOf(rows) == [i \in 1..Len(rows) |-> rows[i].hash]

MalformedRowDroppedAlone ==
    cl_pc = "done" =>
        /\ ~cl_result.raised
        /\ cl_result.value = HashesOf(WellFormed(cl_data))

\* what holds of the code instead: the page is lost exactly when a txlist or
\* txlistinternal row carries an invalid decimal
HasBadDecimal == \E i \in 1..Len(cl_data) : cl_data[i].value \notin Numerals
DecimalLosesPage ==
    cl_pc = "done" =>
        /\ ~cl_result.raised
        /\ cl_result.value =
              IF cl_method # "token" /\ HasBadDecimal
              THEN <<>> ELSE HashesOf(WellFormed(cl_data))

\* C17: when the request raises, get_normal_transactions and
\* get_internal_transactions return [] and raise nothing, get_token_transfers
\* raises the error of the request
TransportBoundaryHolds ==
    cl_pc = "failed" =>
        /\ cl_method \in {"normal", "internal"} =>
              (~cl_result.raised /\ cl_result.value = <<>>)
        /\ cl_method = "token" =>
              (cl_result.raised /\ cl_result.error \in RequestErrors)

\* get_token_transfers raised the RateLimitError of a request for a page that
\* the provider would have answered with rows
TransportBoundaryWitness ==
    /\ cl_pc = "failed"
    /\ cl_method = "token"
    /\ cl_result.raised
    /\ cl_result.error = "RateLimitError"
    /\ Len(cl_data) = 2
    /\ WellFormed(cl_data) = cl_data

\* C16: the check of the elapsed time and the update of last_call are one
\* critical section: at most one caller is between the two, and it holds the
\* lock; consecutive grants are at least min_interval apart; the n-th grant
\* comes no sooner than (n-1) * min_interval after the first call of wait()
InSection == {c \in Callers : rl_pc[c] = "sleeping"}
FirstCalled == rl_grants[1].called

CriticalSectionHolds ==
    /\ Cardinality(InSection) <= 1
    /\ \A c \in InSection : rl_lock = c
    /\ \A i \in 1..(Len(rl_grants) - 1) :
          rl_grants[i + 1].at - rl_grants[i].at >= min_interval
    /\ \A n \in 1..Len(rl_grants) :
          rl_grants[n].at - FirstCalled >= (n - 1) * min_interval

\* three callers called wait() at the same time; the second and the third were
\* made to wait and got through min_interval after one another
CriticalSectionWitness ==
    /\ Len(rl_grants) = 3
    /\ {rl_grants[i].caller : i \in 1..3} = Callers
    /\ \A i \in 1..3 : rl_grants[i].called = Epoch
    /\ rl_grants[3].at - rl_grants[1].at = 2 * min_interval

\* C18 as stated: the returned dict has one entry per position of the input
\* list, and the entry of a position whose processing raised is an error entry
InputSet == {b_addresses[i] : i \in 1..Len(b_addresses)}
OneEntryPerPosition ==
    b_pc = "returned" =>
        /\ Cardinality(DOMAIN b_results) = Len(b_addresses)
        /\ \A i \in 1..Len(b_addresses) :
              b_outcomes[i] # "ok" => b_results[b_addresses[i]].error # "none"

\* C18: the returned dict has one entry for every distinct address of the
\* input list, holding the outcome of the last occurrence of the address: an
\* error entry when that processing raised, the result otherwise; every
\* position is processed whatever happened before it; the batch raises nothing
LastOccurrence(a) == CHOOSE i \in 1..Len(b_addresses) :
    /\ b_addresses[i] = a
    /\ \A j \in (i + 1)..Len(b_addresses) : b_addresses[j] # a
OneEntryPerAddressHolds ==
    b_pc = "returned" =>
        /\ DOMAIN b_results = InputSet
        /\ Len(b_outcomes) = Len(b_addresses)
        /\ \A a \in InputSet :
              LET o == b_outcomes[LastOccurrence(a)]
              IN  IF o = "ok" THEN b_results[a].error = "none"
                  ELSE b_results[a] = ErrorEntry(o)

\* an invalid address first, then an address that fails in the core, then one
\* that succeeds: three entries
OneEntryPerAddressWitness ==
    /\ b_pc = "returned"
    /\ b_addresses = <<TooShort, GoodMixed, GoodLower>>
    /\ b_outcomes = <<"ValidationError", "ProcessingError", "ok">>
    /\ b_results[TooShort] = ErrorEntry("ValidationError")
    /\ b_results[GoodMixed] = ErrorEntry("ProcessingError")
    /\ b_results[GoodLower].error = "none"

\* C19: addresses are processed one after the other in list order, and
\* between the end of every address and the start of the next the pause elapses
Position(e) == CHOOSE p \in 1..Len(b_log) : b_log[p] = e
Logged(e) == \E p \in 1..Len(b_log) : b_log[p] = e
PauseBetweenAll ==
    \A i \in 1..Len(b_addresses) :
        Logged(Event("start", i + 1)) =>
            /\ Logged(Event("end", i))
            /\ Logged(Event("pause", i))
            /\ Position(Event("end", i)) < Position(Event("pause", i))
            /\ Position(Event("pause", i)) < Position(Event("start", i + 1))

\* what holds of the code instead: the order is sequential, and the pause
\* follows exactly the addresses that were processed without an exception
PauseAfterSuccessOnly ==
    \A i \in 1..Len(b_addresses) :
        Logged(Event("start", i + 1)) =>
            /\ Logged(Event("end", i))
            /\ Position(Event("start", i)) < Position(Event("end", i))
            /\ Position(Event("end", i)) < Position(Event("start", i + 1))
            /\ Logged(Event("pause", i)) <=> b_outcomes[i] = "ok"
            /\ Logged(Event("pause", i)) =>
                  /\ Position(Event("end", i)) < Position(Event("pause", i))
                  /\ Position(Event("pause", i)) < Position(Event("start", i + 1))

\* C20: an address that is not "0x" followed by exactly 40 hex digits is
\* rejected with ValidationError before the core is invoked: no session is
\* opened for it, the core is not called with it, nothing is exported for it
ExactFormat(a) ==
    a.prefix = "0x" /\ a.digits = 40 /\ a.hex /\ a.tail = ""
Touched ==
    {b_sessions[k] : k \in 1..Len(b_sessions)}
        \cup {b_core[k] : k \in 1..Len(b_core)}
        \cup {b_exports[k] : k \in 1..Len(b_exports)}
InvalidRejected ==
    /\ \A i \in 1..Len(b_outcomes) :
          ~ExactFormat(b_addresses[i]) => b_outcomes[i] = "ValidationError"
    /\ \A a \in Touched : ExactFormat(a)

\* what holds of the code instead: the addresses the pattern does not match are
\* rejected before the core
UnmatchedRejected ==
    /\ \A i \in 1..Len(b_outcomes) :
          ~is_valid_ethereum_address(b_addresses[i]) =>
              b_outcomes[i] = "ValidationError"
    /\ \A a \in Touched : is_valid_ethereum_address(a)

\* C21: convert_internal_to_transaction gives a transaction of type
\* INTERNAL_TRANSFER with gas_price, transaction_fee, nonce and
\* transaction_index 0, status failed exactly when is_error is true and success
\* otherwise, and the record's error_code among the annotations; it gives None
\* only for a record from which no Transaction can be built
Unbuildable(r) == checksum_raises(r.from_address) \/ checksum_raises(r.to_address)
InternalConversionHolds ==
    (cv_pc = "converted" /\ cv_source = "internal") =>
        /\ cv_result = NoTransaction <=> Unbuildable(cv_record)
        /\ cv_result # NoTransaction =>
              /\ cv_result.transaction_type = "INTERNAL_TRANSFER"
              /\ cv_result.gas_price = 0
              /\ cv_result.transaction_fee = 0
              /\ cv_result.nonce = 0
              /\ cv_result.transaction_index = 0
              /\ cv_result.status = "0" <=> cv_record.is_error
              /\ cv_result.status = "1" <=> ~cv_record.is_error
              /\ <<"error_code", cv_record.error_code>> \in cv_result.raw_data
              /\ cv_result.hash = cv_record.hash
              /\ cv_result.gas_used = cv_record.gas_used

\* a reverted internal call became a failed internal transfer
InternalConversionWitness ==
    /\ cv_pc = "converted"
    /\ cv_source = "internal"
    /\ cv_record.is_error
    /\ cv_record.error_code = "Reverted"
    /\ cv_result # NoTransaction
    /\ cv_result.status = "0"
    /\ cv_result.transaction_type = "INTERNAL_TRANSFER"
    /\ <<"error_code", "Reverted">> \in cv_result.raw_data

\* C22: convert_token_transfer_to_transaction gives ERC721_TRANSFER exactly
\* when token_id is present and not empty and ERC20_TRANSFER otherwise, always
\* with status success and gas_used, gas_price, transaction_fee, nonce and
\* transaction_index 0
TokenConversionHolds ==
    (cv_pc = "converted" /\ cv_source = "token") =>
        /\ cv_result = NoTransaction <=> Unbuildable(cv_record)
        /\ cv_result # NoTransaction =>
              /\ cv_result.transaction_type = "ERC721_TRANSFER"
                    <=> (cv_record.token_id # None /\ cv_record.token_id # "")
              /\ cv_result.transaction_type \in {"ERC721_TRANSFER", "ERC20_TRANSFER"}
              /\ cv_result.status = "1"
              /\ cv_result.gas_used = 0
              /\ cv_result.gas_price = 0
              /\ cv_result.transaction_fee = 0
              /\ cv_result.nonce = 0
              /\ cv_result.transaction_index = 0

\* a transfer with an empty token id became an ERC-20 transfer
TokenConversionWitness ==
    /\ cv_pc = "converted"
    /\ cv_source = "token"
    /\ cv_record.token_id = ""
    /\ cv_result # NoTransaction
    /\ cv_result.transaction_type = "ERC20_TRANSFER"
    /\ cv_result.status = "1"

SourceRank(b) == CASE b = "normal" -> 1 [] b = "internal" -> 2 [] OTHER -> 3
MergedBefore(h1, h2) ==
    \/ SourceRank(h1[1]) < SourceRank(h2[1])
    \/ h1[1] = h2[1] /\ h1[2] < h2[2]
StableSortHolds ==
    phase = "returned" =>
        \A i, j \in 1..Len(returned) :
            (i < j /\ returned[i].timestamp = returned[j].timestamp) =>
                MergedBefore(returned[i].hash, returned[j].hash)

\* a newer token transfer is first; behind it, with one timestamp, two normal
\* transactions, an internal one and a token transfer, in merge order
StableSortWitness ==
    /\ phase = "returned"
    /\ Len(returned) >= 5
    /\ returned[1].hash[1] = "token"
    /\ returned[1].timestamp = 2
    /\ \E i, j, k, l \in 2..Len(returned) :
          /\ i < j /\ j < k /\ k < l
          /\ returned[i].hash = <<"normal", 1>>
          /\ returned[j].hash = <<"normal", 2>>
          /\ returned[k].hash[1] = "internal"
          /\ returned[l].hash[1] = "token"
          /\ \A m \in {i, j, k, l} : returned[m].timestamp = 1

\* C25 as stated: input data whose first ten characters are not in the
\* signature table leave the type unchanged (unless the status is failed) and
\* leave method_id as it was; the selector of totalSupply or balanceOf sets
\* method_id and leaves the type unchanged
Unrecognized(tx) ==
    ~(/\ tx.input_data # NoneInput
      /\ tx.input_data.len > 2
      /\ tx.input_data.head \in method_signatures)
OtherSelector(tx) ==
    tx.input_data.len > 2 /\ tx.input_data.head \in {"0x18160ddd", "0x70a08231"}
SelectorFrameAsStated ==
    cat_runs = 1 =>
        /\ Unrecognized(cat_input) =>
              /\ cat_tx.method_id = cat_input.method_id
              /\ cat_input.status # "0" =>
                    cat_tx.transaction_type = cat_input.transaction_type
        /\ OtherSelector(cat_input) =>
              /\ cat_tx.method_id = cat_input.input_data.head
              /\ cat_tx.transaction_type = cat_input.transaction_type

\* C25, amended: in both cases the type is left unchanged unless the status is
\* failed, and is FAILED_TRANSACTION when it is
SelectorFrameHolds ==
    cat_runs = 1 =>
        /\ Unrecognized(cat_input) =>
              cat_tx.method_id = cat_input.method_id
        /\ OtherSelector(cat_input) =>
              cat_tx.method_id = cat_input.input_data.head
        /\ (Unrecognized(cat_input) \/ OtherSelector(cat_input)) =>
              cat_tx.transaction_type =
                  IF cat_input.status = "0" THEN "FAILED_TRANSACTION"
                  ELSE cat_input.transaction_type

\* a successful balanceOf call that came in as an NFT transfer keeps its type
\* and gets the selector as method_id
SelectorFrameWitness ==
    /\ cat_runs = 1
    /\ cat_input.input_data = BalanceOfCall
    /\ cat_input.status = "1"
    /\ cat_input.transaction_type = "ERC721_TRANSFER"
    /\ cat_input.method_id = None
    /\ cat_tx.transaction_type = "ERC721_TRANSFER"
    /\ cat_tx.method_id = "0x70a08231"

\* C26: when the provider's data ends with a full page and the accumulated
\* count is still below max_transactions, the branch issues exactly one further
\* request, which returns empty, and then stops without error, returning all
\* records of the full pages
IsEmptyPage(out) == out.kind = "page" /\ out.rows = <<>>
EndsAfterFullPage(b) ==
    /\ Len(resps[b]) >= 2
    /\ IsEmptyPage(resps[b][Len(resps[b])])
    /\ \A i \in 1..(Len(resps[b]) - 1) : IsFull(resps[b][i])
ExtraRequestHolds ==
    \A b \in Branches :
        \* a full page below the limit is followed by a further request
        /\ (Done(b) /\ resps[b] # <<>> /\ IsFull(resps[b][Len(resps[b])])) =>
              Len(RowsOf(resps[b])) >= max_transactions
        \* nothing is requested after an empty page
        /\ \A i \in 1..(Len(calls[b]) - 1) : ~IsEmptyPage(resps[b][i])
        /\ EndsAfterFullPage(b) =>
              /\ Done(b)
              /\ Len(calls[b]) = Len(resps[b])
              /\ (Len(resps[b]) - 1) * RequestedSize < max_transactions
              /\ ~result[b].exception
              /\ result[b].value = RowsOf(resps[b])
              /\ Len(result[b].value) = (Len(resps[b]) - 1) * RequestedSize

\* two full pages, then the empty answer to the third request
ExtraRequestWitness ==
    \E b \in Branches :
        /\ EndsAfterFullPage(b)
        /\ Len(calls[b]) = 3
        /\ Len(result[b].value) = 2 * DefaultPageSize
        /\ phase = "returned"

\* C27: every call of process_wallet_transactions terminates when every
\* request is answered or fails, also when every answer is a full page: a
\* branch issues at most ceil(max_transactions / page size) client calls, and
\* none at all for max_transactions <= 0; every wait() of a branch is granted
\* eventually; the call returns eventually
CallBound ==
    \A b \in Branches :
        IF max_transactions <= 0
        THEN calls[b] = <<>>
        ELSE (Len(calls[b]) - 1) * PageSize(max_transactions) < max_transactions
TerminatesHolds ==
    /\ []CallBound
    /\ <>(phase = "returned" /\ \A b \in Branches : Granted(b) = Len(calls[b]))

\* the call returned after a branch was answered with full pages only and was
\* stopped by the limit, each of its calls having been through wait()
TerminatesWitness ==
    /\ phase = "returned"
    /\ \E b \in Branches :
          /\ Len(calls[b]) = 2
          /\ \A i \in 1..2 : IsFull(resps[b][i])
          /\ Granted(b) = 2
    /\ \A b \in Branches : Granted(b) = Len(calls[b])

\* C28: in the list process_wallet_transactions returns, a transaction has the
\* type FAILED_TRANSACTION exactly when its status is failed; a failed internal
\* record is returned as FAILED_TRANSACTION and not as INTERNAL_TRANSFER
FailedTypeHolds ==
    phase = "returned" =>
        \A i \in 1..Len(returned) :
            /\ returned[i].transaction_type = "FAILED_TRANSACTION"
                  <=> returned[i].status = "0"
            /\ (returned[i].hash[1] = "internal" /\ returned[i].status = "0") =>
                  returned[i].transaction_type # "INTERNAL_TRANSFER"

\* the returned list holds a failed internal record, a failed call of
\* transfer() and a successful internal record
FailedTypeWitness ==
    /\ phase = "returned"
    /\ \E i, j, k \in 1..Len(returned) :
          /\ returned[i].hash[1] = "internal"
          /\ returned[i].status = "0"
          /\ returned[i].raw_data = {<<"internal", TRUE>>, <<"error_code", "Reverted">>}
          /\ returned[j].hash[1] = "normal"
          /\ returned[j].status = "0"
          /\ returned[j].method_id = "0xa9059cbb"
          /\ returned[k].hash[1] = "internal"
          /\ returned[k].transaction_type = "INTERNAL_TRANSFER"

\* C29: a branch ends its pagination on the number of parsed records: after an
\* answer of offset raw rows of which one or more are dropped as malformed, and
\* after a failure of _make_request that get_normal_transactions or
\* get_internal_transactions turned into an empty list, the branch has got a
\* list and no exception, requests no further page and returns what it
\* collected so far; it went on only after answers whose rows were all parsed
Dropped(b, o) ==
    \E i \in 1..Len(o.raw) :
        Parse(b, RawRow(b, i, o.raw[i])).kind # "row"
CutShort(b, o) ==
    \/ Len(o.raw) = PageSize(max_transactions) /\ Dropped(b, o)
    \/ o.failed /\ b \in {"normal", "internal"}
ParsedCountHolds ==
    \A b \in Branches :
        \A i \in 1..Len(resps[b]) :
            /\ CutShort(b, resps[b][i]) =>
                  /\ resps[b][i].kind = "page"
                  /\ Len(resps[b][i].rows) < PageSize(max_transactions)
                  /\ i = Len(resps[b])
                  /\ Len(calls[b]) = i
                  /\ pc[b] = "done"
                  /\ ~result[b].exception
                  /\ result[b].value = Slice(RowsOf(resps[b]), max_transactions)
            /\ i < Len(calls[b]) =>
                  /\ Len(resps[b][i].rows) = PageSize(max_transactions)
                  /\ ~Dropped(b, resps[b][i])

\* after a first page whose rows were all parsed, the second answer has as many
\* raw rows as were asked for, one of them malformed: the branch is finished
\* with fewer records than its limit
ParsedCountWitness ==
    \E b \in Branches :
        /\ pc[b] = "done"
        /\ Len(resps[b]) = 2
        /\ Len(resps[b][2].raw) = PageSize(max_transactions)
        /\ resps[b][2].rows # <<>>
        /\ Dropped(b, resps[b][2])
        /\ Len(result[b].value) < max_transactions

\* C30: the limiter's lock is held only inside wait(), its sleep included, and
\* is free of a branch when that branch's HTTP request is sent: no branch sends
\* a request that was not preceded by a wait() of its own that returned, a
\* branch has at most one request outstanding, and requests of several
\* branches, up to all three, are outstanding at once
LockScopeHolds ==
    /\ \A b \in Branches :
          /\ Outstanding(b) => rl_lock # b
          /\ rl_lock = b => NeedsWait(b) /\ rl_pc[b] \in {"resumed", "sleeping"}
          /\ Len(resps[b]) <= Granted(b)
          /\ Granted(b) <= Len(calls[b])
          /\ Len(calls[b]) <= Len(resps[b]) + 1
    /\ rl_lock \in Branches \cup {"free"}
    /\ Cardinality({b \in Branches : Outstanding(b)}) <= 3

\* the requests of all three branches are outstanding at once, the lock is
\* free, and each branch went through wait() once
LockScopeWitness ==
    /\ \A b \in Branches : Outstanding(b) /\ Granted(b) = 1
    /\ rl_lock = "free"

====
